---- MODULE Spec2Model ----
(***************************************************************************)
(* The data-access layer of FTC Insight: a read-through TTL cache kept in  *)
(* a persistent key-value store (idb-keyval), in front of a primary        *)
(* document store (Firestore) and a fallback HTTP backend.                 *)
(*                                                                         *)
(* Every `await` of the source is one step of a caller: the position of a  *)
(* caller is pc[p], its locals are loc[p].  Store operations, the primary  *)
(* query, the HTTP fetch and the body decoding can each fail.              *)
(***************************************************************************)
EXTENDS Integers, Sequences, FiniteSets, TLC

(***************************************************************************)
(* Bounds of the model.                                                    *)
(***************************************************************************)
MaxCalls == 2
MaxTicks == 2
MaxDeploys == 1
MaxCallsSecond == 1

(***************************************************************************)
(* Constants of the program.                                               *)
(***************************************************************************)
MsPerSecond == 1000
CURR_YEAR == 2026
TTL_LONG == 3600
TTL_MEDIUM == 300
TTL_SHORT == 60

Procs == {1, 2}

(***************************************************************************)
(* JavaScript values, tagged by type.  `undefined` is what the store's get *)
(* yields for a key that was never set.                                    *)
(***************************************************************************)
Undefined == [t |-> "undefined"]
Null == [t |-> "null"]
Num(n) == [t |-> "number", n |-> n]
Arr(items) == [t |-> "array", items |-> items]
Obj(src, of) == [t |-> "object", src |-> src, of |-> of]
Pair(f1, v1, v2) == [t |-> "object", year |-> v1, field |-> f1, rows |-> v2]
Thrown == [t |-> "thrown"]

\* JavaScript truthiness: `if (v)`, `!v`, `v || d`.
Truthy(v) ==
  CASE v.t = "undefined" -> FALSE
    [] v.t = "null" -> FALSE
    [] v.t = "number" -> v.n # 0
    [] OTHER -> TRUE

IsArray(v) == v.t = "array"

\* Mutant: the length of a sequence is not looked at.
NonEmptyResultNoLength(v) == Truthy(v)

\* result && (Array.isArray(result) ? result.length > 0 : true)
NonEmptyResult(v) == Truthy(v) /\ (IF IsArray(v) THEN Len(v.items) > 0 ELSE TRUE)

(***************************************************************************)
(* Arguments the callers pass, and the version strings a build can embed.  *)
(* A limitCount of 0 stands for an omitted limitCount (both are falsy).    *)
(***************************************************************************)
Teams == {7}
Years == {CURR_YEAR - 1, CURR_YEAR}
Limits == {0, 5}
EventKeys == {"E1", "E1_beta"}

\* A version string, as its parts between underscores.
VersionParts == {<<"v3">>, <<"v4">>, <<"beta", "v3">>}

RECURSIVE Join(_)
Join(parts) ==
  IF Len(parts) = 1 THEN parts[1] ELSE parts[1] \o "_" \o Join(Tail(parts))

Versions == {Join(parts) : parts \in VersionParts}

\* export const version = 'v3';
version == "v3"

S(n) == ToString(n)

(***************************************************************************)
(* The Resource Query Functions: the cache key, the backend path, the TTL  *)
(* and the primary query each hands to cachedQuery.  ver is the embedded   *)
(* version string, fy is new Date().getFullYear().                         *)
(***************************************************************************)
getAllTeams(ver) ==
  [fn |-> "getAllTeams", key |-> "teams_all_" \o ver,
   path |-> "/v3/site/teams/all", ttl |-> TTL_LONG,
   q |-> "collection", coll |-> "teams", doc |-> "", team |-> 0, year |-> 0]

getTeam(teamNum, ver) ==
  [fn |-> "getTeam", key |-> "team_" \o S(teamNum) \o "_" \o ver,
   path |-> "/v3/site/teams/" \o S(teamNum), ttl |-> TTL_LONG,
   q |-> "document", coll |-> "teams", doc |-> S(teamNum),
   team |-> teamNum, year |-> 0]

getYearTeamYears(year, limitCount, ver, fy) ==
  [fn |-> "getYearTeamYears",
   key |-> IF limitCount # 0
             THEN "team_years_" \o S(year) \o "_" \o S(limitCount) \o "_" \o ver
             ELSE "team_years_" \o S(year) \o "_all_" \o ver,
   path |-> IF limitCount # 0
              THEN "/v3/site/team_years/" \o S(year) \o "?limit=" \o S(limitCount) \o "&metric=epa"
              ELSE "/v3/site/team_years/" \o S(year),
   ttl |-> IF year = fy THEN TTL_SHORT ELSE TTL_LONG,
   q |-> "team_years", coll |-> "team_years", doc |-> S(year),
   team |-> 0, year |-> year]

getTeamYear(teamNum, year, ver) ==
  [fn |-> "getTeamYear",
   key |-> "team_year_" \o S(teamNum) \o "_" \o S(year) \o "_" \o ver,
   path |-> "/v3/site/team_year/" \o S(year) \o "/" \o S(teamNum), ttl |-> TTL_MEDIUM,
   q |-> "document", coll |-> "team_years", doc |-> S(teamNum) \o "_" \o S(year),
   team |-> teamNum, year |-> year]

getTeamAllYears(teamNum, ver) ==
  [fn |-> "getTeamAllYears", key |-> "team_all_years_" \o S(teamNum) \o "_" \o ver,
   path |-> "/v3/site/teams/" \o S(teamNum) \o "/years", ttl |-> TTL_LONG,
   q |-> "collection", coll |-> "team_years", doc |-> "",
   team |-> teamNum, year |-> 0]

getYearEvents(year, ver, fy) ==
  [fn |-> "getYearEvents", key |-> "events_" \o S(year) \o "_" \o ver,
   path |-> "/v3/site/events/" \o S(year),
   ttl |-> IF year = fy THEN TTL_SHORT ELSE TTL_LONG,
   q |-> "events", coll |-> "events", doc |-> S(year),
   team |-> 0, year |-> year]

\* Mutant: the cache key leaves the version out.
getEventUnversioned(eventKey, ver) ==
  [fn |-> "getEvent", key |-> "event_" \o eventKey,
   path |-> "/v3/site/events/" \o eventKey, ttl |-> TTL_MEDIUM,
   q |-> "document", coll |-> "events", doc |-> eventKey, team |-> 0, year |-> 0]

getEvent(eventKey, ver) ==
  [fn |-> "getEvent", key |-> "event_" \o eventKey \o "_" \o ver,
   path |-> "/v3/site/events/" \o eventKey, ttl |-> TTL_MEDIUM,
   q |-> "document", coll |-> "events", doc |-> eventKey, team |-> 0, year |-> 0]

getEventMatches(eventKey, ver) ==
  [fn |-> "getEventMatches", key |-> "event_matches_" \o eventKey \o "_" \o ver,
   path |-> "/v3/site/events/" \o eventKey \o "/matches", ttl |-> TTL_SHORT,
   q |-> "collection", coll |-> "matches", doc |-> "", team |-> 0, year |-> 0]

getTeamYearMatches(teamNum, year, ver) ==
  [fn |-> "getTeamYearMatches",
   key |-> "team_matches_" \o S(teamNum) \o "_" \o S(year) \o "_" \o ver,
   path |-> "/v3/site/team_year/" \o S(year) \o "/" \o S(teamNum) \o "/matches",
   ttl |-> TTL_MEDIUM,
   q |-> "team_matches", coll |-> "team_events", doc |-> "",
   team |-> teamNum, year |-> year]

getEventRankings(eventKey, ver) ==
  [fn |-> "getEventRankings", key |-> "event_rankings_" \o eventKey \o "_" \o ver,
   path |-> "/v3/site/events/" \o eventKey \o "/rankings", ttl |-> TTL_SHORT,
   q |-> "collection", coll |-> "rankings", doc |-> "", team |-> 0, year |-> 0]

\* Every call a page can make under version ver in calendar year fy.
ResourceCalls(ver, fy) ==
  {getAllTeams(ver)}
    \cup {getTeam(n, ver) : n \in Teams}
    \cup {getYearTeamYears(y, l, ver, fy) : y \in Years, l \in Limits}
    \cup {getTeamYear(n, y, ver) : n \in Teams, y \in Years}
    \cup {getTeamAllYears(n, ver) : n \in Teams}
    \cup {getYearEvents(y, ver, fy) : y \in Years}
    \cup {getEvent(e, ver) : e \in EventKeys}
    \cup {getEventMatches(e, ver) : e \in EventKeys}
    \cup {getTeamYearMatches(n, y, ver) : n \in Teams, y \in Years}
    \cup {getEventRankings(e, ver) : e \in EventKeys}

\* `${key}_expiry`
ExpiryKey(key) == key \o "_expiry"

(***************************************************************************)
(* The primary source adapter (Firestore).  What the document store does   *)
(* with one query is an outcome: "error" (getDoc/getDocs rejects),         *)
(* "missing"/"empty" (no such document, no matching document), or          *)
(* "found"/"rows".                                                         *)
(***************************************************************************)
DocOutcomes == {"error", "missing", "found"}
ColOutcomes == {"error", "empty", "rows"}

\* try { ... docSnap.exists() ? docSnap.data() : null } catch { return null }
fetchDocument(o, collectionName, docId) ==
  IF o = "error"
    THEN Null
    ELSE IF o = "found" THEN Obj("firestore", collectionName \o "/" \o docId) ELSE Null

\* try { ... querySnapshot.docs.map(...) } catch { return [] }
fetchCollection(o, collectionName) ==
  IF o = "error"
    THEN Arr(<<>>)
    ELSE IF o = "rows" THEN Arr(<<Obj("firestore", collectionName)>>) ELSE Arr(<<>>)

(***************************************************************************)
(* The content of the document store that fetchTeamMatches reads: the      *)
(* team_events documents, and the matches of each event as the query       *)
(* where("event", "==", eventKey), orderBy("time", "asc") yields them.     *)
(***************************************************************************)
Match(event, time, r1, r2, b1, b2) ==
  [t |-> "object", event |-> event, time |-> time,
   red_1 |-> r1, red_2 |-> r2, blue_1 |-> b1, blue_2 |-> b2]

TeamEvent(teamNum, year, event) == [team |-> teamNum, year |-> year, event |-> event]

DbTeamEvents ==
  {TeamEvent(7, CURR_YEAR, "E1"), TeamEvent(7, CURR_YEAR, "E2"),
   TeamEvent(7, CURR_YEAR - 1, "E0"),
   TeamEvent(8, CURR_YEAR, "E2"), TeamEvent(8, CURR_YEAR, "E3")}

EventMatchDocs(event) ==
  CASE event = "E0" -> <<Match("E0", 40, 2, 3, 7, 4)>>
    [] event = "E1" -> <<Match("E1", 10, 1, 2, 3, 4), Match("E1", 30, 7, 2, 3, 4)>>
    [] event = "E2" -> <<Match("E2", 20, 1, 2, 3, 7), Match("E2", 30, 8, 7, 5, 6)>>
    [] event = "E3" -> <<Match("E3", 5, 9, 8, 1, 2), Match("E3", 25, 7, 1, 2, 3)>>
    [] OTHER -> <<>>

DbEvents == {"E0", "E1", "E2", "E3"}

\* The events of the team_events documents with the given team and year.
TeamEventDocs(teamNum, year) ==
  {te.event : te \in {d \in DbTeamEvents : d.team = teamNum /\ d.year = year}}

\* The orders in which a query without orderBy can yield a set of documents.
Orders(docs) ==
  {s \in [1..Cardinality(docs) -> docs] : \A i, j \in DOMAIN s : i # j => s[i] # s[j]}

\* What the document store does with the queries of one fetchTeamMatches:
\* err: the team_events query fails; order: the order it yields the team's
\* events in; failed: the events whose matches query fails.
TeamMatchesOutcomes(teamNum, year) ==
  {[err |-> TRUE, order |-> <<>>, failed |-> {}]}
    \cup {[err |-> FALSE, order |-> s, failed |-> f] :
            s \in Orders(TeamEventDocs(teamNum, year)),
            f \in SUBSET TeamEventDocs(teamNum, year)}

\* fetchCollection(COLLECTIONS.team_events, ...): [] when the query fails
fetchTeamEvents(o) == IF o.err THEN <<>> ELSE o.order

\* Mutant: a failed matches query throws, and the error ends the composite
\* query in cachedQuery's catch.
fetchEventMatchesThrows(event, failed) ==
  IF event \in failed THEN <<Thrown>> ELSE EventMatchDocs(event)

\* fetchEventMatches(te.event): [] when the query fails
fetchEventMatches(event, failed) ==
  IF event \in failed THEN <<>> ELSE EventMatchDocs(event)

\* Mutant: the blue alliance is not looked at.
PlaysInRed(m, teamNum) == m.red_1 = teamNum \/ m.red_2 = teamNum

PlaysIn(m, teamNum) ==
  m.red_1 = teamNum \/ m.red_2 = teamNum \/ m.blue_1 = teamNum \/ m.blue_2 = teamNum

RECURSIVE Insert(_, _)
Insert(m, sorted) ==
  IF sorted = <<>>
    THEN <<m>>
    ELSE IF m.time - Head(sorted).time < 0
           THEN <<m>> \o sorted
           ELSE <<Head(sorted)>> \o Insert(m, Tail(sorted))

\* allMatches.sort((a, b) => a.time - b.time), a stable sort
RECURSIVE SortByTime(_)
SortByTime(ms) ==
  IF ms = <<>> THEN <<>> ELSE Insert(ms[Len(ms)], SortByTime(SubSeq(ms, 1, Len(ms) - 1)))

\* for (const te of teamEvents) { ...filter...; allMatches.push(...teamMatches) }
RECURSIVE CollectTeamMatches(_, _, _)
CollectTeamMatches(teamEvents, teamNum, failed) ==
  IF teamEvents = <<>>
    THEN <<>>
    ELSE LET eventMatches == fetchEventMatches(Head(teamEvents), failed)
         IN  IF eventMatches = <<Thrown>>
               THEN <<Thrown>>
               ELSE LET rest == CollectTeamMatches(Tail(teamEvents), teamNum, failed)
                    IN  IF rest = <<Thrown>>
                          THEN <<Thrown>>
                          ELSE SelectSeq(eventMatches, LAMBDA m : PlaysIn(m, teamNum)) \o rest

fetchTeamMatches(teamNum, year, o) ==
  LET allMatches == CollectTeamMatches(fetchTeamEvents(o), teamNum, o.failed)
  IN  IF allMatches = <<Thrown>> THEN Thrown ELSE Arr(SortByTime(allMatches))

(***************************************************************************)
(* The primaryQuery closure of each call: the outcomes the document store  *)
(* can produce for it, and the value the closure resolves to.  A call of   *)
(* cachedQuery itself (q = "any") has an arbitrary closure, which may      *)
(* throw.                                                                  *)
(***************************************************************************)
PrimaryOutcomes(c) ==
  CASE c.q = "document" -> {<<o>> : o \in DocOutcomes}
    [] c.q = "collection" -> {<<o>> : o \in ColOutcomes}
    [] c.q \in {"team_years", "events"} -> ColOutcomes \X DocOutcomes
    [] c.q = "team_matches" -> {<<o>> : o \in TeamMatchesOutcomes(c.team, c.year)}
    [] OTHER -> {<<o>> : o \in {"throw", "null", "empty", "rows", "record"}}

\* Promise.all([fetchTeamYears(year, limitCount) or fetchEvents(year), fetchYear(year)])
firebaseQuery(c, o) ==
  CASE c.q = "document" -> fetchDocument(o[1], c.coll, c.doc)
    [] c.q = "collection" -> fetchCollection(o[1], c.coll)
    [] c.q = "team_years" ->
         Pair("team_years", fetchDocument(o[2], "years", S(c.year)),
              fetchCollection(o[1], "team_years"))
    [] c.q = "events" ->
         Pair("events", fetchDocument(o[2], "years", S(c.year)),
              fetchCollection(o[1], "events"))
    [] c.q = "team_matches" -> fetchTeamMatches(c.team, c.year, o[1])
    [] OTHER ->
         CASE o[1] = "throw" -> Thrown
           [] o[1] = "null" -> Null
           [] o[1] = "empty" -> Arr(<<>>)
           [] o[1] = "rows" -> Arr(<<Obj("primary", c.key)>>)
           [] OTHER -> Obj("primary", c.key)

\* Every document-store query the closure issued failed or found nothing.
AllQueriesFailedOrEmpty(c, o) ==
  CASE c.q = "document" -> o[1] \in {"error", "missing"}
    [] c.q = "collection" -> o[1] \in {"error", "empty"}
    [] c.q \in {"team_years", "events"} ->
         o[1] \in {"error", "empty"} /\ o[2] \in {"error", "missing"}
    [] c.q = "team_matches" ->
         \/ o[1].err
         \/ \A e \in TeamEventDocs(c.team, c.year) :
              e \in o[1].failed \/ EventMatchDocs(e) = <<>>
    [] OTHER -> FALSE

(***************************************************************************)
(* The fallback backend: the status of the response and the decoded body.  *)
(***************************************************************************)
Statuses == {200, 500}

\* Mutant: the status is not looked at.
ResOkAlways(status) == TRUE

\* res.ok
ResOk(status) == 200 <= status /\ status <= 299

Bodies(c) == {Null, Arr(<<>>), Obj("backend", c.path)}

(***************************************************************************)
(* The TTL cache's arithmetic and the configuration check.                 *)
(***************************************************************************)
\* Mutant: the ttl is added as milliseconds.
ExpiresAtSeconds(nowMs, ttl) == nowMs + ttl

\* now.getTime() + 1000 * ttl
ExpiresAt(nowMs, ttl) == nowMs + MsPerSecond * ttl

\* Mutant: an entry counts as expired at its expiry instant already.
ExpiredAtInstant(nowMs, expiry) == nowMs >= expiry.n

\* now.getTime() > expiry
Expired(nowMs, expiry) == nowMs > expiry.n

\* Mutant: the value is read from the expiry record's key.
ValueKeyReadExpiry(key) == ExpiryKey(key)

\* the key getWithExpiry reads the value record from: get(key)
ValueKeyRead(key) == key

\* Mutant: setWithExpiry lets the store's exception through.
setWithExpiryRethrows == FALSE

\* setWithExpiry wraps its two sets in try/catch; getWithExpiry has none.
setWithExpiryCatches == TRUE
getWithExpiryCatches == FALSE

Envs == [projectId : BOOLEAN, apiKey : BOOLEAN]

\* Mutant: one of the two parameters is enough.
isFirebaseConfiguredEither(e) == e.projectId \/ e.apiKey

\* !!(NEXT_PUBLIC_FIREBASE_PROJECT_ID && NEXT_PUBLIC_FIREBASE_API_KEY)
isFirebaseConfigured(e) == e.projectId /\ e.apiKey

\* Mutant: only null counts as a miss.
CacheHitNotNull(cached) == cached # Null

\* if (cached) { ... return cached }
CacheHit(cached) == Truthy(cached)

\* What the Resource Query Function makes of cachedQuery's result r.
RqfReturn(c, r) ==
  IF r = Thrown
    THEN Thrown
    ELSE CASE c.fn \in {"getAllTeams", "getTeamAllYears", "getEventMatches",
                        "getTeamYearMatches", "getEventRankings"} ->
                IF Truthy(r) THEN r ELSE Arr(<<>>)
           [] c.fn = "getYearTeamYears" ->
                IF Truthy(r) THEN r ELSE Pair("team_years", Null, Arr(<<>>))
           [] OTHER -> r

(***************************************************************************)
(* The persistent key-value store: a function from the keys that are set.  *)
(***************************************************************************)
Get(st, k) == IF k \in DOMAIN st THEN st[k] ELSE Undefined
Put(st, k, v) == [x \in (DOMAIN st) \cup {k} |-> IF x = k THEN v ELSE st[x]]
Del(st, k) == [x \in (DOMAIN st) \ {k} |-> st[x]]
EmptyStore == [x \in {} |-> Undefined]

(***************************************************************************)
(* State.                                                                  *)
(*   store      the persistent key-value store                             *)
(*   now        the clock, in milliseconds                                 *)
(*   fullYear   new Date().getFullYear()                                   *)
(*   env        the two connection parameters of the primary source        *)
(*   ver        the version string embedded in the running build           *)
(*   pc, call, loc, ret   per caller: position, the call in progress, the  *)
(*              locals of getWithExpiry/setWithExpiry, cachedQuery's result*)
(*   calls, ticks, deploys   counters that bound the model                 *)
(*   obs, wver  history: what each call did, and the build that wrote each *)
(*              record                                                     *)
(*   wexp       history: for each value record, the expiry instant that    *)
(*              the setWithExpiry call that set it computed                *)
(***************************************************************************)
VARIABLES store, now, fullYear, env, ver, pc, call, loc, ret, calls, ticks, deploys,
          obs, wver, wexp

vars == <<store, now, fullYear, env, ver, pc, call, loc, ret, calls, ticks, deploys,
          obs, wver, wexp>>

NoCall ==
  [fn |-> "none", key |-> "", path |-> "", ttl |-> 0, q |-> "none",
   coll |-> "", doc |-> "", team |-> 0, year |-> 0]

NoLoc == [expiry |-> Undefined, value |-> Undefined, expiresAt |-> 0]

NoObs ==
  [store0 |-> EmptyStore, nPrimary |-> 0, nFallback |-> 0, noData |-> FALSE,
   primary |-> Undefined, status |-> 0, body |-> Undefined, fetchThrew |-> FALSE,
   check |-> "none", tCheck |-> 0, tWrite |-> 0, miss |-> FALSE, hit |-> FALSE,
   readFault |-> FALSE, writeFault |-> FALSE, ver |-> "", outcome |-> <<>>,
   overlap |-> FALSE, vexp |-> 0]

Init ==
  /\ store = EmptyStore
  /\ now = 1
  /\ fullYear \in Years
  /\ env \in Envs
  /\ ver = version
  /\ pc = [p \in Procs |-> "idle"]
  /\ call = [p \in Procs |-> NoCall]
  /\ loc = [p \in Procs |-> NoLoc]
  /\ ret = [p \in Procs |-> Undefined]
  /\ calls = [p \in Procs |-> 0]
  /\ ticks = 0
  /\ deploys = 0
  /\ obs = [p \in Procs |-> NoObs]
  /\ wver = EmptyStore
  /\ wexp = EmptyStore

\* cachedQuery returns r (or rejects, when r is Thrown).
Finish(p, r, o) ==
  /\ pc' = [pc EXCEPT ![p] = "done"]
  /\ ret' = [ret EXCEPT ![p] = r]
  /\ obs' = [obs EXCEPT ![p] = o]

\* Mutant: the fallback is started together with the primary.
MissBoth(p, o) ==
  /\ ret' = ret
  /\ IF isFirebaseConfigured(env)
       THEN /\ pc' = [pc EXCEPT ![p] = "primary"]
            /\ obs' = [obs EXCEPT ![p] = [o EXCEPT !.miss = TRUE, !.nPrimary = @ + 1,
                                                   !.nFallback = @ + 1]]
       ELSE /\ pc' = [pc EXCEPT ![p] = "fetch"]
            /\ obs' = [obs EXCEPT ![p] = [o EXCEPT !.miss = TRUE, !.nFallback = @ + 1]]

\* getWithExpiry yielded nothing truthy: cachedQuery goes to the sources.  The
\* code runs without suspending up to the call of firebaseQuery() or fetch().
Miss(p, o) ==
  /\ ret' = ret
  /\ IF isFirebaseConfigured(env)
       THEN /\ pc' = [pc EXCEPT ![p] = "primary"]
            /\ obs' = [obs EXCEPT ![p] = [o EXCEPT !.miss = TRUE, !.nPrimary = @ + 1]]
       ELSE /\ pc' = [pc EXCEPT ![p] = "fetch"]
            /\ obs' = [obs EXCEPT ![p] = [o EXCEPT !.miss = TRUE, !.nFallback = @ + 1]]

\* A store operation of getWithExpiry rejects: nothing catches it.
ReadThrows(p) ==
  IF getWithExpiryCatches
    THEN Miss(p, [obs[p] EXCEPT !.readFault = TRUE])
    ELSE Finish(p, Thrown, [obs[p] EXCEPT !.readFault = TRUE])

\* Some call for the key is between its first and its last store operation.
InProgressOn(key) == \E q \in Procs : pc[q] \notin {"idle", "done"} /\ call[q].key = key

\* A page calls a Resource Query Function, which calls cachedQuery, which calls
\* getWithExpiry, which issues get(`${key}_expiry`).
Call(p, c) ==
  /\ pc[p] \in {"idle", "done"}
  /\ calls[p] < MaxCalls
  /\ calls' = [calls EXCEPT ![p] = @ + 1]
  /\ call' = [call EXCEPT ![p] = c]
  /\ loc' = [loc EXCEPT ![p] = NoLoc]
  /\ ret' = [ret EXCEPT ![p] = Undefined]
  /\ obs' = [obs EXCEPT ![p] = [NoObs EXCEPT !.store0 = store, !.ver = ver,
                                           !.overlap = InProgressOn(c.key)]]
  /\ pc' = [pc EXCEPT ![p] = "gwe_get_expiry"]
  /\ UNCHANGED <<store, now, fullYear, env, ver, ticks, deploys, wver, wexp>>

\* const expiry = await get(`${key}_expiry`); if (!expiry) return null;
\* if (now.getTime() > expiry) { await del(`${key}_expiry`) ...
GetExpiry(p) ==
  /\ pc[p] = "gwe_get_expiry"
  /\ UNCHANGED <<store, now, fullYear, env, ver, call, calls, ticks, deploys, wver, wexp>>
  /\ \/ /\ ReadThrows(p)
        /\ loc' = loc
     \/ LET expiry == Get(store, ExpiryKey(call[p].key))
            o == [obs[p] EXCEPT !.tCheck = now]
        IN  /\ loc' = [loc EXCEPT ![p].expiry = expiry]
            /\ IF ~Truthy(expiry)
                 THEN Miss(p, [o EXCEPT !.check = "absent"])
                 ELSE IF Expired(now, expiry)
                        THEN /\ pc' = [pc EXCEPT ![p] = "gwe_del_expiry"]
                             /\ obs' = [obs EXCEPT ![p] = [o EXCEPT !.check = "stale"]]
                             /\ ret' = ret
                        ELSE /\ pc' = [pc EXCEPT ![p] = "gwe_get_value"]
                             /\ obs' = [obs EXCEPT ![p] = [o EXCEPT !.check = "fresh"]]
                             /\ ret' = ret

\* await del(`${key}_expiry`);
DelExpiry(p) ==
  /\ pc[p] = "gwe_del_expiry"
  /\ UNCHANGED <<now, fullYear, env, ver, call, loc, calls, ticks, deploys>>
  /\ \/ /\ ReadThrows(p)
        /\ UNCHANGED <<store, wver, wexp>>
     \/ /\ store' = Del(store, ExpiryKey(call[p].key))
        /\ wver' = Del(wver, ExpiryKey(call[p].key))
        /\ pc' = [pc EXCEPT ![p] = "gwe_del_value"]
        /\ UNCHANGED <<ret, obs, wexp>>

\* await del(key); return null;
DelValue(p) ==
  /\ pc[p] = "gwe_del_value"
  /\ UNCHANGED <<now, fullYear, env, ver, call, loc, calls, ticks, deploys>>
  /\ \/ /\ ReadThrows(p)
        /\ UNCHANGED <<store, wver, wexp>>
     \/ /\ store' = Del(store, call[p].key)
        /\ wver' = Del(wver, call[p].key)
        /\ wexp' = Del(wexp, call[p].key)
        /\ Miss(p, obs[p])

\* The expiry instant computed by the write that set the key's value record.
ValueExpiry(key) == IF key \in DOMAIN wexp THEN wexp[key] ELSE 0

\* return get(key);  then in cachedQuery: if (cached) return cached;
GetValue(p) ==
  /\ pc[p] = "gwe_get_value"
  /\ UNCHANGED <<store, now, fullYear, env, ver, call, loc, calls, ticks, deploys, wver, wexp>>
  /\ \/ ReadThrows(p)
     \/ LET cached == Get(store, ValueKeyRead(call[p].key))
        IN  IF CacheHit(cached)
              THEN Finish(p, cached, [obs[p] EXCEPT !.hit = TRUE,
                                                    !.vexp = ValueExpiry(call[p].key)])
              ELSE Miss(p, obs[p])

\* cachedQuery calls fetch(`${BACKEND_URL}${backendPath}`).
InvokeFetch(p, o) ==
  /\ pc' = [pc EXCEPT ![p] = "fetch"]
  /\ obs' = [obs EXCEPT ![p] = [o EXCEPT !.nFallback = @ + 1]]
  /\ UNCHANGED <<loc, ret>>

\* cachedQuery calls setWithExpiry(cacheKey, v, expiry), which takes the time
\* and issues set(`${key}_expiry`, now.getTime() + 1000 * ttl).
EnterSet(p, v, o) ==
  /\ pc' = [pc EXCEPT ![p] = "swe_set_expiry"]
  /\ loc' = [loc EXCEPT ![p].value = v, ![p].expiresAt = ExpiresAt(now, call[p].ttl)]
  /\ obs' = [obs EXCEPT ![p] = [o EXCEPT !.tWrite = now]]
  /\ ret' = ret

\* A set of setWithExpiry rejects: the catch logs it, setWithExpiry returns and
\* cachedQuery returns the value it was about to cache.  (Uncaught, the
\* rejection would end in the catch of the enclosing try of cachedQuery: after
\* the primary, on to the fetch; after the fetch, return null.)
WriteThrows(p) ==
  LET o == [obs[p] EXCEPT !.writeFault = TRUE]
  IN  IF setWithExpiryCatches
        THEN Finish(p, loc[p].value, o)
        ELSE IF obs[p].nFallback = 0
               THEN /\ pc' = [pc EXCEPT ![p] = "fetch"]
                    /\ obs' = [obs EXCEPT ![p] = [o EXCEPT !.nFallback = @ + 1]]
                    /\ ret' = ret
               ELSE Finish(p, Null, o)

\* const result = await firebaseQuery();
\* if (result && (Array.isArray(result) ? result.length > 0 : true)) { ... }
PrimaryReturn(p) ==
  /\ pc[p] = "primary"
  /\ UNCHANGED <<store, now, fullYear, env, ver, call, calls, ticks, deploys, wver, wexp>>
  /\ \E a \in PrimaryOutcomes(call[p]) :
       LET result == firebaseQuery(call[p], a)
           o == [obs[p] EXCEPT !.noData = AllQueriesFailedOrEmpty(call[p], a),
                             !.primary = result, !.outcome = a]
       IN  IF result = Thrown
             THEN InvokeFetch(p, o)
             ELSE IF NonEmptyResult(result)
                    THEN EnterSet(p, result, o)
                    ELSE InvokeFetch(p, o)

\* const res = await fetch(...); if (res.ok) { const data = await res.json(); ...
FetchReturn(p) ==
  /\ pc[p] = "fetch"
  /\ UNCHANGED <<store, now, fullYear, env, ver, call, loc, calls, ticks, deploys, wver, wexp>>
  /\ \/ Finish(p, Null, [obs[p] EXCEPT !.fetchThrew = TRUE])
     \/ \E status \in Statuses :
          IF ResOk(status)
            THEN /\ pc' = [pc EXCEPT ![p] = "json"]
                 /\ obs' = [obs EXCEPT ![p].status = status]
                 /\ ret' = ret
            ELSE Finish(p, Null, [obs[p] EXCEPT !.status = status])

\* const data = await res.json(); await setWithExpiry(cacheKey, data, expiry);
JsonReturn(p) ==
  /\ pc[p] = "json"
  /\ UNCHANGED <<store, now, fullYear, env, ver, call, calls, ticks, deploys, wver, wexp>>
  /\ \/ /\ Finish(p, Null, [obs[p] EXCEPT !.body = Thrown])
        /\ loc' = loc
     \/ \E data \in Bodies(call[p]) :
          EnterSet(p, data, [obs[p] EXCEPT !.body = data])

\* await set(`${key}_expiry`, now.getTime() + 1000 * ttl);
SetExpiry(p) ==
  /\ pc[p] = "swe_set_expiry"
  /\ UNCHANGED <<now, fullYear, env, ver, call, loc, calls, ticks, deploys>>
  /\ \/ /\ WriteThrows(p)
        /\ UNCHANGED <<store, wver, wexp>>
     \/ /\ store' = Put(store, ExpiryKey(call[p].key), Num(loc[p].expiresAt))
        /\ wver' = Put(wver, ExpiryKey(call[p].key), obs[p].ver)
        /\ pc' = [pc EXCEPT ![p] = "swe_set_value"]
        /\ UNCHANGED <<ret, obs, wexp>>

\* await set(key, value);  then cachedQuery returns the value.
SetValue(p) ==
  /\ pc[p] = "swe_set_value"
  /\ UNCHANGED <<now, fullYear, env, ver, call, loc, calls, ticks, deploys>>
  /\ \/ /\ WriteThrows(p)
        /\ UNCHANGED <<store, wver, wexp>>
     \/ /\ store' = Put(store, call[p].key, loc[p].value)
        /\ wver' = Put(wver, call[p].key, obs[p].ver)
        /\ wexp' = Put(wexp, call[p].key, loc[p].expiresAt)
        /\ Finish(p, loc[p].value, obs[p])

\* Time passes, up to the instant a stored expiry record names or to the
\* millisecond after it: the instants between which the code tells no difference.
Instants ==
  UNION {{store[k].n, store[k].n + 1} : k \in {x \in DOMAIN store : store[x].t = "number"}}

\* Only a call in progress reads the clock: time that passes between two calls
\* passes here right after the second is made.
Tick ==
  /\ ticks < MaxTicks
  /\ \E p \in Procs : pc[p] \notin {"idle", "done"}
  /\ ticks' = ticks + 1
  /\ \E t \in Instants : t > now /\ now' = t
  /\ UNCHANGED <<store, fullYear, env, ver, pc, call, loc, ret, calls, deploys, obs, wver, wexp>>

\* A build with another version string is deployed and the page reloads: no
\* call is in progress, and the persistent store is kept.
Redeploy ==
  /\ deploys < MaxDeploys
  /\ \A p \in Procs : pc[p] \in {"idle", "done"}
  /\ deploys' = deploys + 1
  /\ \E v \in Versions \ {ver} : ver' = v
  /\ UNCHANGED <<store, now, fullYear, env, pc, call, loc, ret, calls, ticks, obs, wver, wexp>>

(***************************************************************************)
(* Specifications.  Spec: one caller, every Resource Query Function and    *)
(* cachedQuery with an arbitrary primaryQuery, under the build's version.  *)
(***************************************************************************)
\* cachedQuery called with an arbitrary primaryQuery closure.
cachedQueryCall(c) == [c EXCEPT !.fn = "cachedQuery", !.q = "any"]

SeqCalls(v, fy) ==
  {getAllTeams(v)}
    \cup {getTeam(n, v) : n \in Teams}
    \cup {cachedQueryCall(getTeam(n, v)) : n \in Teams}
    \cup {getYearTeamYears(CURR_YEAR, l, v, fy) : l \in {0}}
    \cup {getYearEvents(CURR_YEAR, v, fy)}
    \cup {getTeamYearMatches(n, CURR_YEAR, v) : n \in Teams}

Step(p) ==
  \/ GetExpiry(p)
  \/ DelExpiry(p)
  \/ DelValue(p)
  \/ GetValue(p)
  \/ PrimaryReturn(p)
  \/ FetchReturn(p)
  \/ JsonReturn(p)
  \/ SetExpiry(p)
  \/ SetValue(p)

Next ==
  \/ \E c \in SeqCalls(ver, fullYear) : Call(1, c)
  \/ Step(1)
  \/ Tick

Spec == Init /\ [][Next]_vars

(***************************************************************************)
(* Vocabulary of the properties.                                           *)
(***************************************************************************)
Done(p) == pc[p] = "done"
K(p) == call[p].key
EK(p) == ExpiryKey(call[p].key)

\* The expiry record and the value record of the call's key when it was called.
Expiry0(p) == Get(obs[p].store0, EK(p))
Value0(p) == Get(obs[p].store0, K(p))

\* The call found an entry for its key (both records) that had not expired
\* when it checked the expiry record, and no read of the store failed.
FreshEntry(p) ==
  /\ obs[p].check # "none"
  /\ ~obs[p].readFault
  /\ K(p) \in DOMAIN obs[p].store0
  /\ Expiry0(p).t = "number"
  /\ obs[p].tCheck <= Expiry0(p).n

SameRecords(p) ==
  /\ Get(store, K(p)) = Value0(p)
  /\ Get(store, EK(p)) = Expiry0(p)

NoSourceInvoked(p) == obs[p].nPrimary = 0 /\ obs[p].nFallback = 0

\* C1 as stated: a call that finds an unexpired entry holding v returns v,
\* invokes no source and leaves both records of the key unchanged.
C1_HitAnyValue ==
  \A p \in Procs :
    Done(p) /\ FreshEntry(p) =>
      ret[p] = Value0(p) /\ NoSourceInvoked(p) /\ SameRecords(p)

\* C1, amended: a call that finds an unexpired entry holding a truthy v (and
\* whose store reads succeed) returns v, invokes neither primaryQuery nor the
\* fallback fetch, and leaves both records of the key unchanged.
C1_HitTruthyValue ==
  \A p \in Procs :
    FreshEntry(p) /\ Truthy(Value0(p)) =>
      /\ NoSourceInvoked(p)
      /\ SameRecords(p)
      /\ Done(p) => ret[p] = Value0(p)

C1_Witness ==
  /\ Done(1) /\ FreshEntry(1) /\ Truthy(Value0(1))
  /\ obs[1].tCheck = Expiry0(1).n
  /\ ret[1] = Value0(1)

\* What the primary and the fallback did for the call.
PrimaryFailedOrEmpty(p) == obs[p].primary = Thrown \/ obs[p].primary = Arr(<<>>)
BodyDecoded(p) == obs[p].body.t \notin {"undefined", "thrown"}

\* The entry the call's setWithExpiry writes when the store accepts both sets.
Cached(p, v) ==
  /\ Get(store, K(p)) = v
  /\ Get(store, EK(p)) = Num(obs[p].tWrite + MsPerSecond * call[p].ttl)

\* C2: on a miss with the primary configured, a primaryQuery that throws or
\* yields an empty sequence makes the call invoke the fallback exactly once;
\* a success status makes the call return the decoded body, and the body is
\* cached under the same key with the given ttl (when the store takes the sets).
C2_FallbackOnThrowOrEmpty ==
  \A p \in Procs :
    env.projectId /\ env.apiKey /\ obs[p].miss /\ PrimaryFailedOrEmpty(p) =>
      /\ obs[p].nFallback = 1
      /\ obs[p].nPrimary = 1
      /\ Done(p) /\ obs[p].status = 200 /\ BodyDecoded(p) =>
           /\ ret[p] = obs[p].body
           /\ ~obs[p].writeFault => Cached(p, obs[p].body)

C2_Witness ==
  /\ Done(1) /\ obs[1].primary = Thrown /\ obs[1].status = 200
  /\ ret[1] = Obj("backend", call[1].path) /\ Cached(1, ret[1])

\* C3 as stated: for every Resource Query Function, when every document-store
\* query of the request fails or finds nothing, the fallback is invoked, its
\* body is what is returned and cached, and the primary's result is not cached.
C3_FallbackWhenPrimaryHasNoData ==
  \A p \in Procs :
    /\ call[p].fn \notin {"none", "cachedQuery"}
    /\ obs[p].primary # Undefined
    /\ obs[p].noData
    => /\ obs[p].nFallback = 1
       /\ pc[p] \notin {"swe_set_expiry", "swe_set_value"} \/ loc[p].value # obs[p].primary
       /\ Done(p) /\ obs[p].status = 200 /\ BodyDecoded(p) => ret[p] = obs[p].body

\* C4 as stated: a store operation of the cache read that throws does not
\* reach the caller; the call goes on to the sources as on a miss.
C4_ReadFaultSwallowed ==
  \A p \in Procs :
    obs[p].readFault => ret[p] # Thrown /\ RqfReturn(call[p], ret[p]) # Thrown /\ obs[p].miss

\* Both sources are unavailable for the call: the fetch threw or answered
\* with a non-success status (the primary, if invoked, threw or was empty).
TotallyUnavailable(p) ==
  /\ obs[p].miss
  /\ obs[p].fetchThrew \/ (obs[p].status # 0 /\ obs[p].status # 200)

\* C5 as stated: under total unavailability the call returns null and leaves
\* the persistent store unchanged.
C5_StoreUnchanged ==
  \A p \in Procs :
    Done(p) /\ TotallyUnavailable(p) => ret[p] = Null /\ store = obs[p].store0

\* C5, amended: under total unavailability the call returns null without
\* raising and writes no record; the only change it makes to the store is the
\* lazy eviction of the key's own expired records.
C5_NothingWritten ==
  \A p \in Procs :
    Done(p) /\ TotallyUnavailable(p) =>
      /\ ret[p] = Null
      /\ \A x \in DOMAIN store : x \in DOMAIN obs[p].store0 /\ store[x] = obs[p].store0[x]
      /\ \A x \in (DOMAIN obs[p].store0) \ (DOMAIN store) :
           /\ x \in {K(p), EK(p)}
           /\ obs[p].tCheck > Expiry0(p).n

C5_Witness ==
  /\ Done(1) /\ TotallyUnavailable(1) /\ obs[1].primary = Thrown /\ obs[1].status = 500
  /\ ret[1] = Null /\ store = obs[1].store0 /\ DOMAIN store # {}

\* C6: with the project identifier or the access key missing, a call never
\* invokes primaryQuery, and a call that misses the cache has invoked the
\* fallback at once.
C6_UnconfiguredSkipsPrimary ==
  \A p \in Procs :
    ~env.projectId \/ ~env.apiKey =>
      /\ obs[p].nPrimary = 0
      /\ pc[p] # "primary"
      /\ obs[p].miss => obs[p].nFallback = 1

C6_Witness ==
  /\ Done(1) /\ env.projectId /\ ~env.apiKey /\ obs[1].miss
  /\ obs[1].nPrimary = 0 /\ obs[1].nFallback = 1 /\ ret[1] = Obj("backend", call[1].path)

\* The call's getWithExpiry has returned and nothing has been written since.
ReadReturned(p) ==
  /\ ~obs[p].readFault
  /\ \/ pc[p] \in {"primary", "fetch", "json", "swe_set_expiry"}
     \/ Done(p) /\ (obs[p].hit \/ obs[p].tWrite = 0)

\* C7: a read of an entry made after its expiry instant returns absent and
\* leaves neither record in the store; a read made at or before the expiry
\* instant deletes nothing.
C7_LazyEviction ==
  \A p \in Procs :
    Expiry0(p).t = "number" /\ obs[p].check # "none" =>
      IF obs[p].tCheck > Expiry0(p).n
        THEN ReadReturned(p) =>
               /\ ~obs[p].hit /\ obs[p].miss
               /\ K(p) \notin DOMAIN store
               /\ EK(p) \notin DOMAIN store
        ELSE (ReadReturned(p) \/ pc[p] = "gwe_get_value") => SameRecords(p)

C7_Witness ==
  /\ pc[1] = "fetch" /\ ReadReturned(1)
  /\ Expiry0(1).t = "number" /\ Value0(1).t = "object"
  /\ obs[1].tCheck = Expiry0(1).n + 1
  /\ K(1) \notin DOMAIN store /\ EK(1) \notin DOMAIN store

\* A non-empty sequence or a non-null single record.
PrimarySucceeded(p) ==
  \/ obs[p].primary.t = "array" /\ Len(obs[p].primary.items) > 0
  \/ obs[p].primary.t = "object"

\* C8: on a miss with the primary configured, a primaryQuery that resolves to
\* a non-empty sequence or a non-null record makes the call cache that result
\* with expiry now + ttlSeconds*1000 and return exactly it, and the fallback
\* is never invoked.
C8_PrimarySuccessCached ==
  \A p \in Procs :
    PrimarySucceeded(p) =>
      /\ obs[p].nFallback = 0
      /\ obs[p].nPrimary = 1
      /\ Done(p) =>
           /\ ret[p] = obs[p].primary
           /\ ~obs[p].writeFault => Cached(p, obs[p].primary)

C8_Witness ==
  /\ Done(1) /\ call[1].fn = "getTeam" /\ obs[1].primary = Obj("firestore", "teams/7")
  /\ ret[1] = obs[1].primary /\ Cached(1, ret[1])
  /\ Get(store, "team_7_v3_expiry") = Num(obs[1].tWrite + 3600000)

\* The value the call obtained from a source.
Obtained(p) == IF obs[p].body # Undefined THEN obs[p].body ELSE obs[p].primary

\* C9: a set of the cache write that throws is never propagated: the call
\* returns the value it obtained from the primary or the fallback source.
C9_WriteFaultSwallowed ==
  \A p \in Procs :
    Done(p) /\ obs[p].writeFault =>
      /\ ret[p] # Thrown
      /\ ret[p] = Obtained(p)
      /\ RqfReturn(call[p], ret[p]) # Thrown

C9_Witness ==
  /\ Done(1) /\ obs[1].writeFault /\ EK(1) \in DOMAIN store /\ K(1) \notin DOMAIN store
  /\ ret[1] = obs[1].primary /\ ret[1].t = "object"

(***************************************************************************)
(* SpecV: builds with different version strings follow one another over    *)
(* the same persistent store.                                              *)
(***************************************************************************)
VerCalls(v) == {getEvent(e, v) : e \in EventKeys}

NextV ==
  \/ \E c \in VerCalls(ver) : Call(1, c)
  \/ Step(1)
  \/ Tick
  \/ Redeploy

SpecV == Init /\ [][NextV]_vars

PartsOf(v) == CHOOSE parts \in VersionParts : Join(parts) = v

\* b ends with "_" followed by a.
EndsWithUnderscore(a, b) ==
  LET pa == PartsOf(a)
      pb == PartsOf(b)
  IN  /\ Len(pa) < Len(pb)
      /\ SubSeq(pb, Len(pb) - Len(pa) + 1, Len(pb)) = pa

Separable(a, b) == a # b /\ ~EndsWithUnderscore(a, b) /\ ~EndsWithUnderscore(b, a)

KeysUnder(v) == {c.key : c \in UNION {ResourceCalls(v, fy) : fy \in Years}}

\* C10 as stated, for any two different version strings: a call under the
\* new version never returns a value that was written under the old version.
C10_AnyVersionsIsolated ==
  \A p \in Procs : Done(p) /\ obs[p].hit => wver[K(p)] = obs[p].ver

\* A fact about the key functions alone: it is evaluated before the first call.
VersionKeysDisjoint ==
  \A a, b \in Versions : Separable(a, b) => KeysUnder(a) \cap KeysUnder(b) = {}

\* C10, amended: the cache keys of two different version strings, neither of
\* which ends with "_" followed by the other, are disjoint, and a call under
\* one never returns a value written under a key of the other.
C10_SeparableVersionsIsolated ==
  /\ (\A p \in Procs : pc[p] = "idle") => VersionKeysDisjoint
  /\ \A p \in Procs :
       Done(p) /\ obs[p].hit =>
         wver[K(p)] = obs[p].ver \/ ~Separable(wver[K(p)], obs[p].ver)

C10_Witness ==
  /\ Done(1) /\ deploys = 1 /\ ver = "v4" /\ call[1] = getEvent("E1", "v4")
  /\ obs[1].check = "absent" /\ obs[1].store0 # EmptyStore
  /\ Get(store, "event_E1_v3") = Obj("firestore", "events/E1")
  /\ Get(store, "event_E1_v4") = Obj("backend", "/v3/site/events/E1")
  /\ ret[1] = Get(store, "event_E1_v4")

(***************************************************************************)
(* SpecM: the team-season matches of several teams and years, over the     *)
(* document store's content above.                                         *)
(***************************************************************************)
MatchTeams == {7, 8, 9}

MatchCalls(v) == {getTeamYearMatches(n, y, v) : n \in MatchTeams, y \in Years}

NextM ==
  \/ \E c \in MatchCalls(ver) : Call(1, c)
  \/ Step(1)
  \/ Tick

SpecM == Init /\ [][NextM]_vars

\* The match documents of the store, and those a team-season consists of:
\* the matches of the given events that have the team in one of the four slots.
DbMatches == UNION {{EventMatchDocs(e)[i] : i \in DOMAIN EventMatchDocs(e)} : e \in DbEvents}

Participations(teamNum, year) ==
  {e \in DbEvents : TeamEvent(teamNum, year, e) \in DbTeamEvents}

SeasonMatches(teamNum, events) ==
  {m \in DbMatches :
     /\ m.event \in events
     /\ teamNum \in {m.red_1, m.red_2, m.blue_1, m.blue_2}}

\* The composite primary query of the call has returned.
TeamMatchesReturned(p) == call[p].q = "team_matches" /\ obs[p].primary # Undefined

\* v is a sequence of exactly the given matches, in non-decreasing time.
SortedSeqOf(v, matches) ==
  /\ v.t = "array"
  /\ {v.items[i] : i \in DOMAIN v.items} = matches
  /\ Len(v.items) = Cardinality(matches)
  /\ \A i, j \in DOMAIN v.items : i < j => v.items[i].time <= v.items[j].time

\* C11: when its queries succeed, the composite primary query for team T and
\* year Y returns exactly the matches of T's events of Y that have T in
\* red_1, red_2, blue_1 or blue_2, ordered by non-decreasing time, whatever
\* the order of the per-event fetches.
C11_TeamSeasonMatches ==
  \A p \in Procs :
    /\ TeamMatchesReturned(p)
    /\ ~obs[p].outcome[1].err
    /\ obs[p].outcome[1].failed = {}
    => SortedSeqOf(obs[p].primary,
                   SeasonMatches(call[p].team, Participations(call[p].team, call[p].year)))

C11_Witness ==
  /\ TeamMatchesReturned(1) /\ call[1].team = 8 /\ call[1].year = CURR_YEAR
  /\ obs[1].outcome[1].order = <<"E2", "E3">> /\ obs[1].outcome[1].failed = {}
  /\ obs[1].primary = Arr(<<Match("E3", 5, 9, 8, 1, 2), Match("E2", 30, 8, 7, 5, 6)>>)

\* C12: when the matches query of some of the team's events fails, the
\* composite query still returns a sequence: the matches of the team in the
\* remaining events, in non-decreasing time.
C12_PartialResults ==
  \A p \in Procs :
    TeamMatchesReturned(p) /\ ~obs[p].outcome[1].err =>
      SortedSeqOf(obs[p].primary,
                  SeasonMatches(call[p].team,
                                Participations(call[p].team, call[p].year)
                                  \ obs[p].outcome[1].failed))

C12_Witness ==
  /\ Done(1) /\ TeamMatchesReturned(1) /\ call[1].team = 7 /\ call[1].year = CURR_YEAR
  /\ obs[1].outcome[1].order = <<"E1", "E2">> /\ obs[1].outcome[1].failed = {"E1"}
  /\ obs[1].primary = Arr(<<Match("E2", 20, 1, 2, 3, 7), Match("E2", 30, 8, 7, 5, 6)>>)
  /\ ret[1] = obs[1].primary

\* The ttl the policy gives each Resource Query Function, the current season
\* being CURR_YEAR.
PolicyTtl(c) ==
  CASE c.fn \in {"getYearTeamYears", "getYearEvents"} ->
         IF c.year = CURR_YEAR THEN TTL_SHORT ELSE TTL_LONG
    [] c.fn \in {"getAllTeams", "getTeam", "getTeamAllYears"} -> TTL_LONG
    [] c.fn \in {"getTeamYear", "getEvent", "getTeamYearMatches"} -> TTL_MEDIUM
    [] OTHER -> TTL_SHORT

\* C13 as stated: every Resource Query Function resolves with the ttl of the
\* policy: 60 s for getYearTeamYears and getYearEvents exactly when year is
\* the current season and 3600 s otherwise; 3600 s, 300 s or 60 s for the rest.
C13_TtlPolicy ==
  \A p \in Procs :
    call[p].fn \notin {"none", "cachedQuery"} => call[p].ttl = PolicyTtl(call[p])

\* C14 as stated: whenever no cache operation on a key is in progress, the
\* store holds the key's value record if and only if it holds its expiry
\* record.
C14_RecordsPaired ==
  \A p \in Procs :
    call[p].fn # "none" /\ ~InProgressOn(K(p)) =>
      (K(p) \in DOMAIN store <=> EK(p) \in DOMAIN store)

(***************************************************************************)
(* SpecC: two callers resolve the same key at the same time, with the      *)
(* primary source configured and a store whose operations all succeed.     *)
(* The second caller makes one call.                                       *)
(***************************************************************************)
ConcCalls(v) == {getTeam(n, v) : n \in Teams}

InitC ==
  /\ Init
  /\ isFirebaseConfigured(env)
  /\ fullYear = CURR_YEAR

NoStoreFault(p) == ~obs[p].readFault /\ ~obs[p].writeFault

NextC ==
  \/ \E c \in ConcCalls(ver) : Call(1, c)
  \/ \E c \in ConcCalls(ver) : calls[2] < MaxCallsSecond /\ Call(2, c)
  \/ \E p \in Procs : Step(p) /\ NoStoreFault(p)'
  \/ Tick

SpecC == InitC /\ [][NextC]_vars

\* C15 as stated: a value that getWithExpiry returns was stored by a write
\* whose own expiry instant had not passed when the read checked the expiry
\* record.
C15_NoExpiredHit ==
  \A p \in Procs : obs[p].hit => obs[p].tCheck <= obs[p].vexp

\* Both calls found no expiry record, obtained a value and wrote it.
ColdWrite(p) ==
  /\ Done(p) /\ calls[p] = 1
  /\ obs[p].check = "absent" /\ obs[p].miss
  /\ obs[p].nPrimary + obs[p].nFallback >= 1
  /\ obs[p].tWrite # 0

\* C16 as stated: once two overlapping calls for the same cold key have both
\* finished, the store holds the value record and the expiry record of one
\* and the same write, the one that finished last: the expiry record is the
\* one computed by the write that set the value record.
C16_LastWriteWins ==
  \A p, q \in Procs :
    /\ p # q /\ K(p) = K(q)
    /\ ColdWrite(p) /\ ColdWrite(q)
    /\ obs[q].overlap
    => /\ K(p) \in DOMAIN store
       /\ Get(store, EK(p)) = Num(ValueExpiry(K(p)))

\* C17 as stated: what an adapter yields when its query fails differs from
\* what it yields when the query succeeds and finds nothing.
C17_FailureDistinguishable ==
  \A p \in Procs :
    obs[p].primary # Undefined =>
      /\ call[p].q = "collection" /\ obs[p].outcome[1] = "error" =>
           obs[p].primary # fetchCollection("empty", call[p].coll)
      /\ call[p].q = "document" /\ obs[p].outcome[1] = "error" =>
           obs[p].primary # fetchDocument("missing", call[p].coll, call[p].doc)

\* The primaryQuery call has been made and has neither returned nor thrown.
PrimaryPending(p) == pc[p] = "primary"

SingleShotOrdered ==
  \A p \in Procs :
    /\ obs[p].nPrimary <= 1
    /\ obs[p].nFallback <= 1
    /\ obs[p].nFallback = 1 /\ obs[p].nPrimary = 1 => obs[p].primary # Undefined
    /\ PrimaryPending(p) =>
         obs[p].nPrimary = 1 /\ obs[p].nFallback = 0 /\ obs[p].primary = Undefined

\* While the primary call is pending, whatever else happens (time passing
\* included), the call stays where it is.
NoTimer ==
  \A p \in Procs :
    PrimaryPending(p) /\ obs'[p].primary = Undefined =>
      /\ pc'[p] = "primary"
      /\ obs'[p].nFallback = 0
      /\ ret'[p] = ret[p]

\* C18: within one call primaryQuery is invoked at most once and the fallback
\* at most once, the fallback only after primaryQuery has returned or thrown;
\* as long as the primary call does not complete, the fallback is not invoked
\* and the call does not return.
C18_SingleShotOrdered == [](SingleShotOrdered) /\ [][NoTimer]_vars

C18_Witness ==
  /\ PrimaryPending(1) /\ now > obs[1].tCheck
  /\ obs[1].nFallback = 0 /\ ret[1] = Undefined

\* The call found an unexpired expiry record without a value record, or a
\* value record without an expiry record.
DanglingExpiry(p) ==
  /\ EK(p) \in DOMAIN obs[p].store0 /\ K(p) \notin DOMAIN obs[p].store0
  /\ Expiry0(p).t = "number" /\ obs[p].tCheck <= Expiry0(p).n

DanglingValue(p) ==
  K(p) \in DOMAIN obs[p].store0 /\ EK(p) \notin DOMAIN obs[p].store0

====
